---- MODULE Spec2Model ----
(***************************************************************************)
(* Model of mongo_user_blueprint/user.py: the User document, its mapping   *)
(* to and from MongoDB documents, and the callbacks that                   *)
(* configure_user_handler registers on the user handler.  The collection   *)
(* is a sequence of documents in insertion order; the User objects that    *)
(* callers hold are kept in a fixed number of slots.                       *)
(***************************************************************************)
EXTENDS Integers, Sequences, FiniteSets, TLC

\* ---------------------------------------------------------------- bounds

MaxUsers == 2      \* documents the collection may hold

\* ------------------------------------------------------------- constants

PENDING_VERIFICATION == 1
ACTIVE == 2

\* date.today().toordinal() on the day of the run
Today == 1

\* _id of a document object that has not been stored (MainDocument default)
NoId == 0

\* a slot that holds no User object / the result of a lookup without match
None == [none |-> TRUE]

\* Strings are sequences of characters, so that '"@" in identifier' is
\* computed and not assumed.
Identifiers == { <<"a">>, <<"a", "@">>, <<"b", "@">> }
FirstNames == { "A" }
LastNames == { "L" }
Hashes == { "h1", "h2" }
\* the places in which callers hold User objects: the properties relate at
\* most two objects
Slots == { 1, 2 }

\* the hash a user registers with
FirstHashes == { "h1" }

\* the username and email of RegistrationData as the user handler passes it
\* to the inserter: a usual payload, a username that is another payload's
\* email, a payload that shares its username with one payload and its email
\* with another, a username with "@" beside an email without
Logins ==
    { << <<"a">>, <<"a", "@">> >>, << <<"a", "@">>, <<"b", "@">> >>,
      << <<"a">>, <<"b", "@">> >>, << <<"b", "@">>, <<"a">> >> }

RegistrationData ==
    { [username |-> l[1], email |-> l[2], first_name |-> f, last_name |-> n,
       password |-> h] :
        l \in Logins, f \in FirstNames, n \in LastNames, h \in FirstHashes }

VARIABLES
    docs,       \* the collection: sequence of documents, in insertion order
    mem,        \* mem[s]: the User object in slot s, or None
    today,      \* date.today().toordinal(), the day of the run
    acked,      \* whether the collection's write concern acknowledges writes
    pc,         \* pc[s]: where the verify_registration call on slot s stands
    wins,       \* wins[id]: verify_registration calls that returned True for _id id
    ret         \* the last call: operation, slot, argument, outcome

vars == <<docs, mem, today, acked, pc, wins, ret>>

\* ------------------------------------------------------------ User class

\* "@" in identifier
Contains(s, ch) == \E i \in 1..Len(s) : s[i] = ch

User__init__(day) ==
    [_id |-> NoId, email |-> <<>>, first_name |-> "", last_name |-> "",
     password |-> "", registration_date |-> day, username |-> <<>>,
     state |-> PENDING_VERIFICATION]

\* the comparison of every field
User__eq__fields(self, other) == self = other

User__eq__(self, other) == self._id = other._id

User__ne__(self, other) == self._id # other._id

is_active(user) == user.state = ACTIVE

to_mongo(user) ==
    [k \in {"_id", "email", "first_name", "last_name", "password",
            "registration_date", "state", "username"} |->
        CASE k = "_id" -> user._id
          [] k = "email" -> user.email
          [] k = "first_name" -> user.first_name
          [] k = "last_name" -> user.last_name
          [] k = "password" -> user.password
          [] k = "registration_date" -> user.registration_date
          [] k = "state" -> user.state
          [] k = "username" -> user.username]

from_mongo(data) ==
    [_id |-> data["_id"], email |-> data["email"],
     first_name |-> data["first_name"], last_name |-> data["last_name"],
     password |-> data["password"],
     registration_date |-> data["registration_date"],
     state |-> data["state"], username |-> data["username"]]

\* ------------------------------------------------- the storage collection

ViolatesUnique_email_only(coll, doc) ==
    \E i \in 1..Len(coll) : coll[i]["email"] = doc["email"]

\* The unique indexes of get_index_models.
ViolatesUnique(coll, doc) ==
    \E i \in 1..Len(coll) :
        \/ coll[i]["email"] = doc["email"]
        \/ coll[i]["username"] = doc["username"]

\* collection.insert_one(document): the driver gives a document without _id
\* a fresh one; a duplicate key raises when the write is acknowledged and is
\* dropped silently when it is not.
insert_one(coll, document, ack) ==
    LET doc == IF document["_id"] = NoId
               THEN [document EXCEPT !["_id"] = Len(coll) + 1]
               ELSE document
        dup == \/ ViolatesUnique(coll, doc)
               \/ \E i \in 1..Len(coll) : coll[i]["_id"] = doc["_id"]
    IN  [docs |-> IF dup THEN coll ELSE Append(coll, doc),
         raised |-> dup /\ ack,
         acknowledged |-> ack,
         inserted_id |-> doc["_id"]]

\* collection.update_one({"_id": id}, {"$set": {field: value}}): the first
\* document with that _id is matched; it counts as modified only if the
\* value differs from the stored one.  modified_count of an unacknowledged
\* result is not available (-1 here).
update_one(coll, id, field, value, ack) ==
    LET hits == { i \in 1..Len(coll) : coll[i]["_id"] = id }
        i == CHOOSE j \in hits : \A k \in hits : j <= k
        changes == hits # {} /\ coll[i][field] # value
    IN  [docs |-> IF changes THEN [coll EXCEPT ![i][field] = value] ELSE coll,
         acknowledged |-> ack,
         matched_count |-> IF ~ack THEN -1 ELSE IF hits # {} THEN 1 ELSE 0,
         modified_count |-> IF ~ack THEN -1 ELSE IF changes THEN 1 ELSE 0]

\* user_collection.find_one(filter) with a one-field filter: the first
\* matching document in natural order, converted to a User, or None.
find_one(coll, prop, value) ==
    LET hits == { i \in 1..Len(coll) : coll[i][prop] = value }
    IN  IF hits = {} THEN None
        ELSE from_mongo(coll[CHOOSE j \in hits : \A k \in hits : j <= k])

\* ------------------------------------------------------------- callbacks

\* the lookup that tries the username and then the email
get_user_by_identifier_either(identifier, coll) ==
    LET u == find_one(coll, "username", identifier)
    IN  IF u # None THEN u ELSE find_one(coll, "email", identifier)

get_user_by_identifier(identifier, coll) ==
    LET prop == IF Contains(identifier, "@") THEN "email" ELSE "username"
    IN  find_one(coll, prop, identifier)

get_user_identifier(user) == user.email

get_user_password(user) == user.password

is_user_verified(user) == is_active(user)

insert_user_no_email(data, coll, ack, day) ==
    LET user == [User__init__(day) EXCEPT
                    !.username = data.username,
                    !.first_name = data.first_name,
                    !.last_name = data.last_name,
                    !.password = data.password]
        result == insert_one(coll, to_mongo(user), ack)
    IN  [docs |-> result.docs,
         raised |-> result.raised,
         value |-> ~result.raised /\ result.acknowledged
                   /\ result.inserted_id # NoId]

\* result: the collection after the call, the exception flag and the value
insert_user(data, coll, ack, day) ==
    LET user == [User__init__(day) EXCEPT
                    !.username = data.username,
                    !.email = data.email,
                    !.first_name = data.first_name,
                    !.last_name = data.last_name,
                    !.password = data.password]
        result == insert_one(coll, to_mongo(user), ack)
    IN  [docs |-> result.docs,
         raised |-> result.raised,
         value |-> ~result.raised /\ result.acknowledged
                   /\ result.inserted_id # NoId]

\* the update that counts a matched document as a modified one
update_user_password_matched(user, password_hash, coll, ack) ==
    LET u == [user EXCEPT !.password = password_hash]
        result == update_one(coll, u._id, "password", u.password, ack)
    IN  [user |-> u,
         docs |-> result.docs,
         raised |-> FALSE,
         value |-> result.acknowledged /\ result.matched_count = 1]

\* the update without its filter: every document gets the password
update_user_password_no_filter(user, password_hash, coll, ack) ==
    LET u == [user EXCEPT !.password = password_hash]
        after == [i \in 1..Len(coll) |->
                    [coll[i] EXCEPT !["password"] = u.password]]
    IN  [user |-> u,
         docs |-> after,
         raised |-> FALSE,
         value |-> ack /\ Cardinality({ i \in 1..Len(coll) :
                                          after[i] # coll[i] }) = 1]

\* the update that writes the whole serialized object
update_user_password_whole(user, password_hash, coll, ack) ==
    LET u == [user EXCEPT !.password = password_hash]
        after == [i \in 1..Len(coll) |->
                    IF coll[i]["_id"] = u._id THEN to_mongo(u) ELSE coll[i]]
    IN  [user |-> u,
         docs |-> after,
         raised |-> FALSE,
         value |-> ack /\ after # coll]

\* result: the User object and the collection after the call, and the value
update_user_password(user, password_hash, coll, ack) ==
    LET u == [user EXCEPT !.password = password_hash]
        result == update_one(coll, u._id, "password", u.password, ack)
    IN  [user |-> u,
         docs |-> result.docs,
         raised |-> FALSE,
         value |-> result.acknowledged /\ result.modified_count = 1]

verify_rejects_inverted(user) == user.state = PENDING_VERIFICATION

\* verify_registration, line 360: the state check
verify_rejects(user) == user.state # PENDING_VERIFICATION

\* verify_registration, line 363: the assignment to the User object
verify_mark(user) == [user EXCEPT !.state = ACTIVE]

verify_write_matched(user, coll, ack) ==
    LET result == update_one(coll, user._id, "state", user.state, ack)
    IN  [user |-> user,
         docs |-> result.docs,
         raised |-> FALSE,
         value |-> result.acknowledged /\ result.matched_count = 1]

\* verify_registration, lines 364-369: the update and the returned value
verify_write(user, coll, ack) ==
    LET result == update_one(coll, user._id, "state", user.state, ack)
    IN  [user |-> user,
         docs |-> result.docs,
         raised |-> FALSE,
         value |-> result.acknowledged /\ result.modified_count = 1]

verify_registration(user, coll, ack) ==
    IF verify_rejects(user)
    THEN [user |-> user, docs |-> coll, raised |-> FALSE, value |-> FALSE]
    ELSE verify_write(verify_mark(user), coll, ack)

\* ---------------------------------------------------------------- actions

NoArg == <<>>

Idle == [s \in Slots |-> "idle"]

\* the record of a call: value is the returned value (for a lookup, whether
\* a User was returned), raised whether an exception left the call, ne the
\* value of != where the call is a comparison
Call(op, s, arg, value, raised, ne) ==
    [op |-> op, slot |-> s, arg |-> arg, value |-> value, raised |-> raised,
     ne |-> ne]

Won(w, user, value) ==
    IF value /\ user._id \in DOMAIN w
    THEN [w EXCEPT ![user._id] = @ + 1]
    ELSE w

InitCommon ==
    /\ docs = <<>>
    /\ mem = [s \in Slots |-> None]
    /\ today = Today
    /\ pc = Idle
    /\ wins = [id \in 1..MaxUsers |-> 0]
    /\ ret = Call("init", 0, NoArg, FALSE, FALSE, FALSE)

\* app.py builds the collection without a write concern: the driver's
\* default, acknowledged writes.
Init == InitCommon /\ acked = TRUE

\* configure_user_handler on a collection of any write concern
InitAnyWriteConcern == InitCommon /\ acked \in BOOLEAN

\* a caller constructs a User object
Construct(s) ==
    /\ pc[s] = "idle"
    /\ mem' = [mem EXCEPT ![s] = User__init__(today)]
    /\ ret' = Call("User", s, NoArg, TRUE, FALSE, FALSE)
    /\ UNCHANGED <<docs, today, acked, pc, wins>>

InsertUser(data) ==
    /\ Len(docs) < MaxUsers
    /\ LET r == insert_user(data, docs, acked, today)
       IN  /\ docs' = r.docs
           /\ ret' = Call("insert_user", 0, NoArg, r.value, r.raised, FALSE)
    /\ UNCHANGED <<mem, today, acked, pc, wins>>

\* the caller keeps the returned User (or None) in slot s
GetUserByIdentifier(s, identifier) ==
    /\ pc[s] = "idle"
    /\ LET r == get_user_by_identifier(identifier, docs)
       IN  /\ mem' = [mem EXCEPT ![s] = r]
           /\ ret' = Call("get_user_by_identifier", s, identifier, r # None,
                          FALSE, FALSE)
    /\ UNCHANGED <<docs, today, acked, pc, wins>>

UpdateUserPassword(s, password_hash) ==
    /\ pc[s] = "idle"
    /\ mem[s] # None
    /\ LET r == update_user_password(mem[s], password_hash, docs, acked)
       IN  /\ mem' = [mem EXCEPT ![s] = r.user]
           /\ docs' = r.docs
           /\ ret' = Call("update_user_password", s, NoArg, r.value, r.raised,
                          FALSE)
    /\ UNCHANGED <<today, acked, pc, wins>>

VerifyRegistration(s) ==
    /\ pc[s] = "idle"
    /\ mem[s] # None
    /\ LET r == verify_registration(mem[s], docs, acked)
       IN  /\ mem' = [mem EXCEPT ![s] = r.user]
           /\ docs' = r.docs
           /\ wins' = Won(wins, r.user, r.value)
           /\ ret' = Call("verify_registration", s, NoArg, r.value, r.raised,
                          FALSE)
    /\ UNCHANGED <<today, acked, pc>>

\* user == other and user != other on two held User objects
Compare(s, t) ==
    /\ pc[s] = "idle" /\ pc[t] = "idle"
    /\ mem[s] # None /\ mem[t] # None
    /\ ret' = Call("eq", s, <<t>>, User__eq__(mem[s], mem[t]), FALSE,
                   User__ne__(mem[s], mem[t]))
    /\ UNCHANGED <<docs, mem, today, acked, pc, wins>>

Next ==
    \/ \E s \in Slots : Construct(s)
    \/ \E data \in RegistrationData : InsertUser(data)
    \/ \E s \in Slots, identifier \in Identifiers :
            GetUserByIdentifier(s, identifier)
    \/ \E s \in Slots, h \in Hashes : UpdateUserPassword(s, h)
    \/ \E s \in Slots : VerifyRegistration(s)

\* the callbacks, and callers that compare the User objects they hold
NextCompare ==
    \/ Next
    \/ \E s \in Slots, t \in Slots : Compare(s, t)

Spec == Init /\ [][Next]_vars

SpecAnyWriteConcern == InitAnyWriteConcern /\ [][Next]_vars

SpecCompare == Init /\ [][NextCompare]_vars

\* ------------------------------------- verify_registration, step by step
\* Requests run concurrently, each on its own User object; the call on slot
\* s is interleaved with the calls on the other slot between its state
\* check and its update.

VerifyCheck(s) ==
    /\ pc[s] = "idle"
    /\ mem[s] # None
    /\ IF verify_rejects(mem[s])
       THEN /\ ret' = Call("verify_registration", s, NoArg, FALSE, FALSE,
                           FALSE)
            /\ UNCHANGED <<mem, pc>>
       ELSE /\ mem' = [mem EXCEPT ![s] = verify_mark(mem[s])]
            /\ pc' = [pc EXCEPT ![s] = "update"]
            /\ ret' = Call("verify_check", s, NoArg, TRUE, FALSE, FALSE)
    /\ UNCHANGED <<docs, today, acked, wins>>

VerifyUpdate(s) ==
    /\ pc[s] = "update"
    /\ LET r == verify_write(mem[s], docs, acked)
       IN  /\ mem' = [mem EXCEPT ![s] = r.user]
           /\ docs' = r.docs
           /\ wins' = Won(wins, r.user, r.value)
           /\ ret' = Call("verify_registration", s, NoArg, r.value, r.raised,
                          FALSE)
    /\ pc' = [pc EXCEPT ![s] = "idle"]
    /\ UNCHANGED <<today, acked>>

NextRace ==
    \/ \E data \in RegistrationData : InsertUser(data)
    \/ \E s \in Slots, identifier \in Identifiers :
            GetUserByIdentifier(s, identifier)
    \/ \E s \in Slots, h \in Hashes : UpdateUserPassword(s, h)
    \/ \E s \in Slots : VerifyCheck(s)
    \/ \E s \in Slots : VerifyUpdate(s)

SpecRace == Init /\ [][NextRace]_vars

\* ---------------------------------------------------------- properties

HasId(coll, id) == \E i \in 1..Len(coll) : coll[i]["_id"] = id

Stored(coll, id) == coll[CHOOSE i \in 1..Len(coll) : coll[i]["_id"] = id]

\* the step is a call of op on slot s (0: a call that takes no User object)
Called(op, s) == ret'.op = op /\ ret'.slot = s

\* the documents of the collection that a call changed
ModifiedDocs(before, after) ==
    { i \in 1..Len(before) : i > Len(after) \/ after[i] # before[i] }

\* C1: verify_registration on a record that is PENDING_VERIFICATION in the
\* User object and in the collection sets both to ACTIVE and returns True;
\* on a User object that is ACTIVE it returns False and changes neither the
\* object nor the collection.
C1_VerifyOnceNoToggle ==
    [][\A s \in Slots :
        (Called("verify_registration", s) /\ VerifyRegistration(s)) =>
        /\ ( /\ mem[s].state = PENDING_VERIFICATION
             /\ HasId(docs, mem[s]._id)
             /\ Stored(docs, mem[s]._id)["state"] = PENDING_VERIFICATION )
           => /\ ret'.value = TRUE
              /\ mem'[s].state = ACTIVE
              /\ Stored(docs', mem[s]._id)["state"] = ACTIVE
        /\ mem[s].state = ACTIVE
           => /\ ret'.value = FALSE
              /\ mem'[s] = mem[s]
              /\ docs' = docs
    ]_vars

\* a second verification of a record that the first one activated has
\* returned False, and the record is still ACTIVE
C1_Witness ==
    /\ ret.op = "verify_registration"
    /\ ret.value = FALSE
    /\ mem[ret.slot].state = ACTIVE
    /\ HasId(docs, mem[ret.slot]._id)
    /\ wins[mem[ret.slot]._id] = 1
    /\ Stored(docs, mem[ret.slot]._id)["state"] = ACTIVE

\* a lookup by identifier returns the record id in state st
Finds(identifier, coll, id, st) ==
    LET u == get_user_by_identifier(identifier, coll)
    IN  u # None /\ u._id = id /\ u.state = st

\* neither the username nor the email of the payload is in the collection
Unused(data, coll) ==
    \A i \in 1..Len(coll) :
        /\ coll[i]["username"] # data.username
        /\ coll[i]["email"] # data.email

\* what C2 asks of a step, for the payloads and records that Covered admits
C2_Step(Covered(_, _)) ==
    /\ \A data \in RegistrationData :
         ( /\ Called("insert_user", 0)
           /\ InsertUser(data)
           /\ Unused(data, docs)
           /\ Covered(data.username, data.email) )
         => /\ ret'.value = TRUE
            /\ Len(docs') = Len(docs) + 1
            /\ LET id == docs'[Len(docs')]["_id"]
               IN  /\ Finds(data.username, docs', id, PENDING_VERIFICATION)
                   /\ Finds(data.email, docs', id, PENDING_VERIFICATION)
    /\ \A s \in Slots :
         ( /\ Called("verify_registration", s)
           /\ VerifyRegistration(s)
           /\ ret'.value = TRUE
           /\ Covered(mem[s].username, mem[s].email) )
         => /\ Finds(mem[s].username, docs', mem[s]._id, ACTIVE)
            /\ Finds(mem[s].email, docs', mem[s]._id, ACTIVE)

AnyLogin(username, email) == TRUE

UsualLogin(username, email) ==
    ~Contains(username, "@") /\ Contains(email, "@")

\* C2 as stated: for every payload whose username and email are unused,
\* insert_user returns True and a lookup by the username and by the email
\* returns the inserted record, PENDING_VERIFICATION; after its
\* verification both lookups return it ACTIVE.
C2_Original == [][C2_Step(AnyLogin)]_vars

\* C2, amended: the same, for the payloads whose username contains no "@"
\* and whose email contains "@".
C2_InsertThenFind == [][C2_Step(UsualLogin)]_vars

\* a record of a usual payload was verified and then looked up by its
\* username, and the lookup returned it ACTIVE
C2_Witness ==
    /\ ret.op = "get_user_by_identifier"
    /\ ret.value = TRUE
    /\ ret.arg = mem[ret.slot].username
    /\ UsualLogin(mem[ret.slot].username, mem[ret.slot].email)
    /\ mem[ret.slot].state = ACTIVE
    /\ wins[mem[ret.slot]._id] = 1

\* no two documents share an email or a username
UniqueLogins ==
    \A i, j \in 1..Len(docs) :
        i # j => /\ docs[i]["email"] # docs[j]["email"]
                 /\ docs[i]["username"] # docs[j]["username"]

\* C3: no two stored records share an email or a username; an insert whose
\* username or email is in the collection raises the storage layer's
\* error, does not return True and adds no record.
C3_UniqueLogins ==
    /\ []UniqueLogins
    /\ [][\A data \in RegistrationData :
            ( /\ Called("insert_user", 0)
              /\ InsertUser(data)
              /\ ~Unused(data, docs) )
            => /\ ret'.raised = TRUE
               /\ ret'.value = FALSE
               /\ docs' = docs
       ]_vars

\* an insert was refused for a duplicate while the collection holds a record
C3_Witness ==
    /\ ret.op = "insert_user"
    /\ ret.raised = TRUE
    /\ Len(docs) >= 1

\* the document with every field but the password
WithoutPassword(doc) ==
    [k \in DOMAIN doc \ {"password"} |-> doc[k]]

\* C4: update_user_password changes only the password of the target
\* record: the other fields of that document, every other document, and
\* the other fields of the serialized User object are as before the call;
\* the object read back from its serialized form is the object before the
\* call with the new password.
C4_PasswordOnly ==
    [][\A s \in Slots, h \in Hashes :
        (Called("update_user_password", s) /\ UpdateUserPassword(s, h)) =>
        /\ Len(docs') = Len(docs)
        /\ \A i \in 1..Len(docs) :
            /\ WithoutPassword(docs'[i]) = WithoutPassword(docs[i])
            /\ docs[i]["_id"] # mem[s]._id => docs'[i] = docs[i]
        /\ WithoutPassword(to_mongo(mem'[s])) = WithoutPassword(to_mongo(mem[s]))
        /\ from_mongo(to_mongo(mem'[s])) = [mem[s] EXCEPT !.password = h]
        /\ \A t \in Slots \ {s} : mem'[t] = mem[t]
    ]_vars

\* a password was updated while the collection holds a second record
C4_Witness ==
    /\ ret.op = "update_user_password"
    /\ ret.value = TRUE
    /\ Len(docs) = 2
    /\ mem[ret.slot].state = ACTIVE

\* C5: get_user_by_identifier with "@" in the identifier returns the record
\* whose email is the identifier, or None when there is none, whatever the
\* usernames are; without "@" it returns the record whose username is the
\* identifier, or None; it never raises.
C5_LookupField ==
    [][\A s \in Slots, identifier \in Identifiers :
        ( /\ Called("get_user_by_identifier", s)
          /\ GetUserByIdentifier(s, identifier) ) =>
            LET prop == IF Contains(identifier, "@") THEN "email"
                        ELSE "username"
                hits == { i \in 1..Len(docs) : docs[i][prop] = identifier }
            IN  /\ ret'.raised = FALSE
                /\ hits = {} => mem'[s] = None /\ ret'.value = FALSE
                /\ hits # {} =>
                    /\ mem'[s] # None
                    /\ to_mongo(mem'[s])[prop] = identifier
                    /\ \E i \in hits : to_mongo(mem'[s]) = docs[i]
    ]_vars

\* an identifier with "@" is the username of a stored record, and the
\* lookup did not return that record
C5_Witness ==
    /\ ret.op = "get_user_by_identifier"
    /\ Contains(ret.arg, "@")
    /\ \E i \in 1..Len(docs) : docs[i]["username"] = ret.arg
    /\ \/ mem[ret.slot] = None
       \/ mem[ret.slot].username # ret.arg

\* C6: a stored record starts PENDING_VERIFICATION; its state changes only
\* from PENDING_VERIFICATION to ACTIVE and only in verify_registration;
\* records are neither removed nor renumbered.
C6_StateForward ==
    [][/\ Len(docs') >= Len(docs)
       /\ \A i \in 1..Len(docs) :
            /\ docs'[i]["_id"] = docs[i]["_id"]
            /\ docs'[i]["state"] # docs[i]["state"] =>
                /\ docs[i]["state"] = PENDING_VERIFICATION
                /\ docs'[i]["state"] = ACTIVE
                /\ \E s \in Slots : VerifyRegistration(s)
       /\ \A i \in (Len(docs) + 1)..Len(docs') :
            docs'[i]["state"] = PENDING_VERIFICATION
    ]_vars

\* a record is ACTIVE, and a password update on a copy of it that was read
\* while it was PENDING_VERIFICATION has just succeeded
C6_Witness ==
    /\ ret.op = "update_user_password"
    /\ ret.value = TRUE
    /\ mem[ret.slot].state = PENDING_VERIFICATION
    /\ HasId(docs, mem[ret.slot]._id)
    /\ Stored(docs, mem[ret.slot]._id)["state"] = ACTIVE

\* C7: update_user_password and verify_registration never raise; each
\* returns True exactly when the write is acknowledged and the call
\* modified exactly one document, and False otherwise: an unacknowledged
\* write, a write of the value already stored, an _id that matches nothing.
C7_BooleanFailure ==
    [][\A s \in Slots :
        ( \/ Called("verify_registration", s) /\ VerifyRegistration(s)
          \/ /\ Called("update_user_password", s)
             /\ \E h \in Hashes : UpdateUserPassword(s, h) )
        => /\ ret'.raised = FALSE
           /\ ret'.value =
                (acked /\ Cardinality(ModifiedDocs(docs, docs')) = 1)
    ]_vars

\* a record is ACTIVE although no verify_registration call on it returned
\* True: the unacknowledged update was applied and the call returned False
C7_Witness ==
    /\ ~acked
    /\ ret.op = "verify_registration"
    /\ ret.value = FALSE
    /\ HasId(docs, mem[ret.slot]._id)
    /\ Stored(docs, mem[ret.slot]._id)["state"] = ACTIVE
    /\ wins[mem[ret.slot]._id] = 0

C9_OneWinner ==
    /\ [](\A id \in DOMAIN wins : wins[id] <= 1)
    /\ [](\A s \in Slots :
            ( /\ pc[s] = "idle"
              /\ mem[s] # None
              /\ mem[s].state = ACTIVE
              /\ HasId(docs, mem[s]._id) )
            => Stored(docs, mem[s]._id)["state"] = ACTIVE)
    /\ [][\A s \in Slots :
            ( /\ VerifyUpdate(s)
              /\ HasId(docs, mem[s]._id)
              /\ Stored(docs, mem[s]._id)["state"] = ACTIVE )
            => /\ docs' = docs
               /\ ret'.value = FALSE
       ]_vars

\* the call on one copy has just returned True while the call on another
\* copy of the same record is past its state check and before its update
C9_Witness ==
    /\ ret.op = "verify_registration"
    /\ ret.value = TRUE
    /\ \E t \in Slots \ {ret.slot} :
        /\ pc[t] = "update"
        /\ mem[t]._id = mem[ret.slot]._id

\* C10: a call of update_user_password or verify_registration that returns
\* False leaves the User object as it was before the call, and the field
\* it writes agrees with the stored record.
C10_FailureLeavesObject ==
    [][\A s \in Slots :
        /\ ( /\ Called("update_user_password", s)
             /\ \E h \in Hashes : UpdateUserPassword(s, h)
             /\ ret'.value = FALSE )
           => /\ mem'[s] = mem[s]
              /\ HasId(docs', mem[s]._id)
              /\ Stored(docs', mem[s]._id)["password"] = mem'[s].password
        /\ ( /\ Called("verify_registration", s)
             /\ VerifyRegistration(s)
             /\ ret'.value = FALSE )
           => /\ mem'[s] = mem[s]
              /\ HasId(docs', mem[s]._id)
              /\ Stored(docs', mem[s]._id)["state"] = mem'[s].state
    ]_vars

TypeOK ==
    /\ Len(docs) <= MaxUsers
    /\ today = Today
    /\ acked \in BOOLEAN
    /\ \A s \in Slots : pc[s] \in {"idle", "update"}
====
